---- MODULE Spec2Model ----
(***************************************************************************)
(* Model of pygcp.vertex.Embedding: the retry primitive                    *)
(* get_embeddings_with_backoff and the operations string and sequence      *)
(* built on it.  The embedding provider (TextEmbeddingModel) is the        *)
(* environment: each call either returns one TextEmbedding object per      *)
(* input string or raises.  Spec starts from a client whose attributes     *)
(* are all set.  FairSpec adds the fairness of a call in progress and     *)
(* SpecHelper models Embedding._sequence.  SpecTimer, SpecCred, SpecGen    *)
(* and SpecNlp model bq.base.job_timer, credentials.create_credentials,    *)
(* gen.number_2_word and nlp.NLP.sentiment_df.                             *)
(***************************************************************************)
EXTENDS Integers, Sequences, FiniteSets, TLC

VARIABLES
    api_request_limit,   \* self.api_request_limit
    api_retry_limit,     \* self.api_retry_limit
    api_retry_delay,     \* self.api_retry_delay
    api_backoff_factor,  \* self.api_backoff_factor
    size,                \* self.size
    self_verbose,        \* self.verbose
    op,                  \* top-level method in progress
    pc,                  \* control location
    input_seq,           \* argument of the top-level method
    a,                   \* sequence(): the numpy matrix, a sequence of rows
    ix1,                 \* sequence(): start index of the current chunk
    input_data,          \* get_embeddings_with_backoff: the batch
    verbose,             \* get_embeddings_with_backoff: the verbose parameter
    r,                   \* get_embeddings_with_backoff: the loop variable _r
    wait,                \* get_embeddings_with_backoff: the computed wait
    embed,               \* value returned by get_embeddings_with_backoff
    ret,                 \* value returned by the top-level method
    exc,                 \* exception that left the top-level method
    ptrace,              \* history: events of the current primitive call
    batches,             \* history: batches sequence() gave the primitive
    written,             \* history: row indices sequence() has assigned
    printed,             \* history: lines printed by the current top-level call
    nfails,              \* history: provider failures in the current call
    newobj,              \* the Embedding object __init__ is building
    \* bq.base: to_df and job_timer
    bq_pc,               \* control location in to_df / job_timer
    clock,               \* time.time(), in seconds
    t0,                  \* job_timer: t0
    timeout,             \* job_timer: the timeout argument
    job,                 \* state of running_job at the service
    done_at,             \* history: the time at which the job finished
    cancel_calls,        \* history: calls of running_job.cancel()
    \* credentials.create_credentials
    cred_pc,             \* control location
    cred_in,             \* the arguments and the environment of the call
    cred_out,            \* the returned pair
    \* gen.number_2_word
    gen_pc,              \* control location
    num,                 \* the argument n
    word,                \* the returned value
    \* nlp.NLP: sentiment_df
    nlp_pc,              \* control location
    api_request_count,   \* self.api_request_count
    df,                  \* the column _df[column_name], row by row
    row,                 \* rows apply() has finished
    out,                 \* _dfx: the pair _sentiment returned for each row
    requests,            \* history: requests given to analyze_sentiment
    count0               \* history: api_request_count when the call began

vars == <<api_request_limit, api_retry_limit, api_retry_delay,
          api_backoff_factor, size, self_verbose, op, pc, input_seq, a, ix1,
          input_data,
          verbose, r, wait, embed, ret, exc, ptrace, batches, written,
          printed, nfails, newobj, bq_pc, clock, t0, timeout, job,
          done_at, cancel_calls, cred_pc, cred_in, cred_out, gen_pc, num, word,
          nlp_pc, api_request_count, df, row, out, requests, count0>>

\* the state of the other modules, which Embedding does not touch
bqvars == <<bq_pc, clock, t0, timeout, job, done_at, cancel_calls>>
credvars == <<cred_pc, cred_in, cred_out>>
genvars == <<gen_pc, num, word>>
nlpvars == <<nlp_pc, api_request_count, df, row, out, requests,
             count0>>
outside == <<bqvars, credvars, genvars, nlpvars>>

config == <<api_request_limit, api_retry_limit, api_retry_delay,
            api_backoff_factor, size, self_verbose>>

----------------------------------------------------------------------------
(* Bounds of the model *)

MaxRequestLimit == 2
MaxRetryLimit == 3
MaxLen == 4
Dim == 2

Strings == {"a", "b"}
RetryDelays == {1, 5}
BackoffFactors == {2, 3}
ProviderErrors == {"ServiceUnavailable", "InvalidArgument"}

\* Every class the provider raises derives from Exception.
ExceptionSubclasses == ProviderErrors \cup {"TypeError", "IndexError"}

RECURSIVE SeqsUpTo(_)
SeqsUpTo(n) ==
    IF n = 0 THEN {<<>>}
    ELSE LET shorter == SeqsUpTo(n - 1)
         IN shorter \cup {Append(s, x) : s \in {t \in shorter : Len(t) = n - 1},
                                         x \in Strings}

Inputs == SeqsUpTo(MaxLen)

\* the batches a caller gives the primitive directly
Batches == {b \in Inputs : Len(b) <= MaxRequestLimit}

----------------------------------------------------------------------------
(* Python and numpy values *)

\* timeout=None of job_timer
NoTimeout == [none |-> TRUE, minutes |-> 0]

\* create_credentials at rest
NoCall == [cred_file |-> "None", project_id |-> "None", scopes |-> <<>>,
           verbose |-> FALSE, env |-> "None"]
NoPair == [credentials |-> "None", project_id |-> "None", scopes |-> <<>>]

\* None returned by number_2_word
NoneWord == [kind |-> "None", chars |-> <<>>]

None == [kind |-> "None", items |-> <<>>]
PyList(items) == [kind |-> "list", items |-> items]
NdArray(rows) == [kind |-> "ndarray", items |-> rows]
FloatList(values) == [kind |-> "values", items |-> values]

Code(s) == IF s = "a" THEN 1 ELSE IF s = "b" THEN 2 ELSE 3

\* The provider is deterministic: the vector of a string.
Vec(s) == [d \in 1..Dim |-> 10 * Code(s) + d]

\* A TextEmbedding object: the vector is its attribute .values
TextEmbedding(s) == [type |-> "TextEmbedding", values |-> Vec(s)]

\* self.model.get_embeddings(batch), when it succeeds
get_embeddings(batch) == [k \in 1..Len(batch) |-> TextEmbedding(batch[k])]

\* a row of np.zeros
ZeroRow(width) == [type |-> "float64", values |-> [d \in 1..width |-> 0]]

\* np.zeros([n, width])
np_zeros(n, width) == [j \in 1..n |-> ZeroRow(width)]

Min(x, y) == IF x <= y THEN x ELSE y

\* seq[lo:hi] of Python, 0-based, hi clamped to the length
PySlice(seq, lo, hi) == SubSeq(seq, lo + 1, Min(hi, Len(seq)))

RECURSIVE Pow(_, _)
Pow(b, n) == IF n = 0 THEN 1 ELSE b * Pow(b, n - 1)

----------------------------------------------------------------------------
(* Embedding.__init__ *)

ModelVersions == {"textembedding-gecko@001"}

\* the attributes in the order lines 15-22 assign them
InitOrder == <<"model_version", "api_request_limit", "model", "size",
               "api_retry_limit", "api_retry_delay", "api_backoff_factor",
               "verbose">>

AllAttrs == {InitOrder[k] : k \in 1..Len(InitOrder)}

\* the attributes already assigned when the right-hand side of the
\* assignment to attr is evaluated
AssignedBefore(attr) ==
    {InitOrder[k] : k \in {m \in 1..Len(InitOrder) :
                              \E j \in (m + 1)..Len(InitOrder) :
                                  InitOrder[j] = attr}}

\* reading self.<name> raises AttributeError unless it was assigned
HasAttr(attrs, name) == name \in attrs

\* no object is under construction
NoObject == [attrs |-> {}, size |-> 0]

----------------------------------------------------------------------------
(* get_embeddings_with_backoff *)

\* the loop written as range(self.api_retry_limit + 1)
RangeHasNext_one_more(cur, limit) == cur + 1 < limit + 1

\* for _r in range(self.api_retry_limit): is there an iteration after _r
RangeHasNext(cur, limit) == cur + 1 < limit

\* the clause written for one error class only
Catches_one_class(cls) == cls = "ServiceUnavailable"

\* except Exception as e
Catches(cls) == cls \in ExceptionSubclasses

\* the wait written with * in place of **
BackoffWait_linear(delay, factor, attempt) == delay * (factor * attempt)

\* wait = self.api_retry_delay * (self.api_backoff_factor**_r)
BackoffWait(delay, factor, attempt) == delay * Pow(factor, attempt)

\* only what the attempts before did not cover is sent again
SentBatch_rest(data, attempt) ==
    IF attempt = 0 \/ Len(data) <= 1 THEN data ELSE Tail(data)

\* the argument of self.model.get_embeddings at attempt _r (line 62):
\* input_data, the list bound before the loop, whatever the attempt
SentBatch(data, attempt) == data

\* the attempt counter kept from the call before
EnterPrimitive_keeps_counter(data, input_kind, verb) ==
    /\ input_data' = IF input_kind = "str" THEN <<data>> ELSE data
    /\ verbose' = verb
    /\ r' = IF r < api_retry_limit THEN r ELSE 0
    /\ wait' = 0
    /\ ptrace' = <<>>
    /\ pc' = "attempt"
    /\ embed' = None

\* entry of the primitive: if input_kind == "str": input_data = [input_data]
\* then the loop starts at _r = 0
EnterPrimitive(data, input_kind, verb) ==
    /\ input_data' = IF input_kind = "str" THEN <<data>> ELSE data
    /\ verbose' = verb
    /\ r' = 0
    /\ wait' = 0
    /\ ptrace' = <<>>
    /\ IF 0 < api_retry_limit
       THEN /\ pc' = "attempt"
            /\ embed' = None
       ELSE /\ pc' = "prim_return"
            /\ embed' = None

\* the other modules at rest
BqIdle ==
    /\ bq_pc = "idle"
    /\ clock = 0
    /\ t0 = 0
    /\ timeout = NoTimeout
    /\ job = "none"
    /\ done_at = 0
    /\ cancel_calls = 0

CredIdle ==
    /\ cred_pc = "idle"
    /\ cred_in = NoCall
    /\ cred_out = NoPair

GenIdle ==
    /\ gen_pc = "idle"
    /\ num = 0
    /\ word = NoneWord

\* an NLP client as __init__ leaves it, no call in progress
NlpIdle ==
    /\ nlp_pc = "idle"
    /\ api_request_count = 0
    /\ df = <<>>
    /\ row = 0
    /\ out = <<>>
    /\ requests = <<>>
    /\ count0 = 0

OutsideIdle == BqIdle /\ CredIdle /\ GenIdle /\ NlpIdle

TypeOK ==
    /\ api_request_limit \in 1..MaxRequestLimit
    /\ api_retry_limit \in 1..MaxRetryLimit
    /\ api_retry_delay \in RetryDelays
    /\ api_backoff_factor \in BackoffFactors
    /\ size = Dim
    /\ self_verbose \in BOOLEAN
    /\ op \in {"none", "string", "sequence", "backoff", "init", "_sequence"}
    /\ pc \in {"idle", "attempt", "sleep", "prim_return", "returned", "raised"}

\* no method of the client is running
ClientIdle ==
    /\ op = "none"
    /\ pc = "idle"
    /\ input_seq = <<>>
    /\ a = <<>>
    /\ ix1 = 0
    /\ input_data = <<>>
    /\ verbose = FALSE
    /\ r = 0
    /\ wait = 0
    /\ embed = None
    /\ ret = None
    /\ exc = "none"
    /\ ptrace = <<>>
    /\ batches = <<>>
    /\ written = {}
    /\ printed = <<>>
    /\ nfails = 0
    /\ newobj = NoObject

Init ==
    /\ api_request_limit \in 1..MaxRequestLimit
    /\ api_retry_limit \in 1..MaxRetryLimit
    /\ api_retry_delay \in RetryDelays
    /\ api_backoff_factor \in BackoffFactors
    /\ size = Len(get_embeddings(<<"dummy data">>)[1].values)
    /\ self_verbose \in BOOLEAN
    /\ ClientIdle
    /\ OutsideIdle

\* a response that follows a failed attempt is dropped
ProviderSucceeds_first_attempt_only ==
    /\ pc = "attempt"
    /\ embed' = IF r > 0 THEN None
                ELSE PyList(get_embeddings(SentBatch(input_data, r)))
    /\ pc' = "prim_return"
    /\ ptrace' = ptrace \o <<[ev |-> "call", r |-> r, w |-> 0,
                             arg |-> SentBatch(input_data, r)],
                            [ev |-> "ok", r |-> r, w |-> 0]>>
    /\ UNCHANGED <<config, outside, newobj>>
    /\ UNCHANGED <<op, input_seq, a, ix1, input_data, verbose, r,
                   wait, ret, exc, batches, written, printed, nfails>>

\* an empty response reported as no result
ProviderSucceeds_empty_is_none ==
    /\ pc = "attempt"
    /\ embed' = IF Len(get_embeddings(SentBatch(input_data, r))) = 0
                THEN None
                ELSE PyList(get_embeddings(SentBatch(input_data, r)))
    /\ pc' = "prim_return"
    /\ ptrace' = ptrace \o <<[ev |-> "call", r |-> r, w |-> 0,
                             arg |-> SentBatch(input_data, r)],
                            [ev |-> "ok", r |-> r, w |-> 0]>>
    /\ UNCHANGED <<config, outside, newobj>>
    /\ UNCHANGED <<op, input_seq, a, ix1, input_data, verbose, r,
                   wait, ret, exc, batches, written, printed, nfails>>

\* the result kept in a local and the loop continued, as _sequence does
ProviderSucceeds_no_return ==
    /\ pc = "attempt"
    /\ embed' = PyList(get_embeddings(input_data))
    /\ IF RangeHasNext(r, api_retry_limit)
       THEN /\ r' = r + 1
            /\ pc' = "attempt"
       ELSE /\ r' = r
            /\ pc' = "prim_return"
    /\ ptrace' = ptrace \o <<[ev |-> "call", r |-> r, w |-> 0,
                             arg |-> SentBatch(input_data, r)],
                            [ev |-> "ok", r |-> r, w |-> 0]>>
    /\ UNCHANGED <<config, outside, newobj>>
    /\ UNCHANGED <<op, input_seq, a, ix1, input_data, verbose,
                   wait, ret, exc, batches, written, printed, nfails>>

\* return self.model.get_embeddings(input_data), the provider answers
ProviderSucceeds ==
    /\ pc = "attempt"
    /\ embed' = PyList(get_embeddings(SentBatch(input_data, r)))
    /\ pc' = "prim_return"
    /\ ptrace' = ptrace \o <<[ev |-> "call", r |-> r, w |-> 0,
                             arg |-> SentBatch(input_data, r)],
                            [ev |-> "ok", r |-> r, w |-> 0]>>
    /\ UNCHANGED <<config, outside, newobj>>
    /\ UNCHANGED <<op, input_seq, a, ix1, input_data, verbose, r,
                   wait, ret, exc, batches, written, printed, nfails>>

\* the wait dropped when the line is printed
ProviderFails_verbose_no_wait(cls) ==
    /\ pc = "attempt"
    /\ wait' = IF verbose THEN 0
               ELSE BackoffWait(api_retry_delay, api_backoff_factor, r)
    /\ printed' = IF verbose
                  THEN Append(printed, [error |-> cls, wait |-> wait'])
                  ELSE printed
    /\ pc' = "sleep"
    /\ exc' = exc
    /\ ptrace' = ptrace \o <<[ev |-> "call", r |-> r, w |-> 0,
                             arg |-> SentBatch(input_data, r)],
                            [ev |-> "fail", r |-> r, w |-> 0]>>
    /\ nfails' = nfails + 1
    /\ UNCHANGED <<config, outside, newobj>>
    /\ UNCHANGED <<op, input_seq, a, ix1, input_data, verbose, r,
                   embed, ret, batches, written>>

\* self.model.get_embeddings(input_data) raises cls; the except clause
\* computes the wait and prints it when verbose
ProviderFails(cls) ==
    /\ pc = "attempt"
    /\ IF Catches(cls)
       THEN /\ wait' = BackoffWait(api_retry_delay, api_backoff_factor, r)
            /\ printed' = IF verbose
                          THEN Append(printed, [error |-> cls, wait |-> wait'])
                          ELSE printed
            /\ pc' = "sleep"
            /\ exc' = exc
       ELSE /\ pc' = "raised"
            /\ exc' = cls
            /\ UNCHANGED <<wait, printed>>
    /\ ptrace' = ptrace \o <<[ev |-> "call", r |-> r, w |-> 0,
                             arg |-> SentBatch(input_data, r)],
                            [ev |-> "fail", r |-> r, w |-> 0]>>
    /\ nfails' = nfails + 1
    /\ UNCHANGED <<config, outside, newobj>>
    /\ UNCHANGED <<op, input_seq, a, ix1, input_data, verbose, r,
                   embed, ret, batches, written>>

\* the delay grown in place on the instance
Sleep_scales_delay ==
    /\ pc = "sleep"
    /\ ptrace' = Append(ptrace, [ev |-> "sleep", r |-> r, w |-> wait])
    /\ api_retry_delay' = wait
    /\ IF RangeHasNext(r, api_retry_limit)
       THEN /\ r' = r + 1
            /\ pc' = "attempt"
            /\ embed' = embed
       ELSE /\ r' = r
            /\ pc' = "prim_return"
            /\ embed' = None
    /\ UNCHANGED <<api_request_limit, api_retry_limit, api_backoff_factor,
                   size, self_verbose, outside, newobj>>
    /\ UNCHANGED <<op, input_seq, a, ix1, input_data, verbose, wait,
                   ret, exc, batches, written, printed, nfails>>

\* time.sleep(wait), then the next iteration of the loop, or the bare
\* return after the loop
Sleep ==
    /\ pc = "sleep"
    /\ ptrace' = Append(ptrace, [ev |-> "sleep", r |-> r, w |-> wait])
    /\ IF RangeHasNext(r, api_retry_limit)
       THEN /\ r' = r + 1
            /\ pc' = "attempt"
            /\ embed' = embed
       ELSE /\ r' = r
            /\ pc' = "prim_return"
            /\ embed' = None
    /\ UNCHANGED <<config, outside, newobj>>
    /\ UNCHANGED <<op, input_seq, a, ix1, input_data, verbose, wait,
                   ret, exc, batches, written, printed, nfails>>

\* a caller invokes get_embeddings_with_backoff directly
CallBackoff(data, input_kind, verb) ==
    /\ pc = "idle"
    /\ op' = "backoff"
    /\ input_seq' = IF input_kind = "str" THEN <<data>> ELSE data
    /\ EnterPrimitive(data, input_kind, verb)
    /\ UNCHANGED <<config, outside, newobj>>
    /\ UNCHANGED <<a, ix1, ret, exc, batches, written, printed, nfails>>

BackoffReturn ==
    /\ pc = "prim_return"
    /\ op = "backoff"
    /\ ret' = embed
    /\ pc' = "returned"
    /\ UNCHANGED <<config, outside, newobj>>
    /\ UNCHANGED <<op, input_seq, a, ix1, input_data, verbose, r,
                   wait, embed, exc, ptrace, batches, written, printed, nfails>>

\* string(): embed = self.get_embeddings_with_backoff(input_string,
\* input_kind="str"); the primitive wraps the string in a list
CallString(s) ==
    /\ pc = "idle"
    /\ op' = "string"
    /\ input_seq' = <<s>>
    /\ EnterPrimitive(s, "str", FALSE)
    /\ UNCHANGED <<config, outside, newobj>>
    /\ UNCHANGED <<a, ix1, ret, exc, batches, written, printed, nfails>>

\* a None from the primitive handed on to the caller
StringReturn_none_passed_on ==
    /\ pc = "prim_return"
    /\ op \in {"string", "init"}
    /\ pc' = "returned"
    /\ ret' = IF embed = None THEN None
              ELSE FloatList(embed.items[1].values)
    /\ UNCHANGED <<config, outside, newobj>>
    /\ UNCHANGED <<op, input_seq, a, ix1, input_data, verbose, r, wait,
                   embed, exc, ptrace, batches, written, printed, nfails>>

\* string(): return embed[0].values
\* None is not subscriptable and an empty list has no element 0.
\* When the caller is __init__ (line 18) the length of the returned list
\* becomes self.size and lines 19-22 assign the remaining attributes
StringReturn ==
    /\ pc = "prim_return"
    /\ op \in {"string", "init"}
    /\ IF embed = None
       THEN /\ pc' = "raised"
            /\ exc' = "TypeError"
            /\ UNCHANGED <<ret, newobj>>
       ELSE IF Len(embed.items) = 0
       THEN /\ pc' = "raised"
            /\ exc' = "IndexError"
            /\ UNCHANGED <<ret, newobj>>
       ELSE /\ pc' = "returned"
            /\ exc' = exc
            /\ ret' = FloatList(embed.items[1].values)
            /\ newobj' = IF op = "init"
                          THEN [attrs |-> AllAttrs,
                                size |-> Len(embed.items[1].values)]
                          ELSE newobj
    /\ UNCHANGED <<config, outside>>
    /\ UNCHANGED <<op, input_seq, a, ix1, input_data, verbose, r,
                   wait, embed, ptrace, batches, written, printed, nfails>>

\* Embedding(model_version): lines 15-17 assign model_version,
\* api_request_limit and model; line 18 calls self.string("dummy data"),
\* which enters the primitive, whose loop header (line 60) reads
\* self.api_retry_limit of the object under construction
Construct(model_version) ==
    /\ pc = "idle"
    /\ op' = "init"
    /\ input_seq' = <<"dummy data">>
    /\ newobj' = [attrs |-> AssignedBefore("size"), size |-> 0]
    /\ IF HasAttr(newobj'.attrs, "api_retry_limit")
       THEN /\ EnterPrimitive("dummy data", "str", FALSE)
            /\ UNCHANGED exc
       ELSE /\ pc' = "raised"
            /\ exc' = "AttributeError"
            /\ input_data' = <<"dummy data">>
            /\ UNCHANGED <<verbose, r, wait, embed, ptrace>>
    /\ UNCHANGED <<config, outside>>
    /\ UNCHANGED <<a, ix1, ret, batches, written, printed, nfails>>

\* the start of one iteration of sequence()'s loop over the chunks:
\* subset_seq = input_seq[ix1:ix2] goes to the primitive
StartChunk(seq, i) ==
    LET ix2 == i + api_request_limit
        subset_seq == PySlice(seq, i, ix2)
    IN /\ ix1' = i
       /\ batches' = Append(batches, [ix1 |-> i, items |-> subset_seq])
       /\ EnterPrimitive(subset_seq, "list", FALSE)

\* sequence(): n <= api_request_limit hands the whole input to the
\* primitive; otherwise a = np.zeros([n, self.size]) and the loop starts
CallSequence(seq) ==
    /\ pc = "idle"
    /\ op' = "sequence"
    /\ input_seq' = seq
    /\ LET n == Len(seq)
       IN IF n <= api_request_limit
          THEN /\ EnterPrimitive(seq, "list", FALSE)
               /\ UNCHANGED <<a, ix1, batches>>
          ELSE /\ a' = np_zeros(n, size)
               /\ StartChunk(seq, 0)
    /\ UNCHANGED <<config, outside, newobj>>
    /\ UNCHANGED <<ret, exc, written, printed, nfails>>

\* sequence(), n <= api_request_limit: the primitive's value is returned
SequenceSmallReturn ==
    /\ pc = "prim_return"
    /\ op = "sequence"
    /\ Len(input_seq) <= api_request_limit
    /\ ret' = embed
    /\ pc' = "returned"
    /\ UNCHANGED <<config, outside, newobj>>
    /\ UNCHANGED <<op, input_seq, a, ix1, input_data, verbose, r,
                   wait, embed, exc, ptrace, batches, written, printed, nfails>>

\* the rows of a chunk assigned in reverse
WriteRows_reversed(matrix, i, count, response) ==
    [j \in 1..Len(matrix) |->
        IF i < j /\ j <= i + count THEN response[i + count + 1 - j]
        ELSE matrix[j]]

\* for iy, j in enumerate(range(ix1, ix1 + len(subset_seq))):
\*     a[j] = embed[iy]
\* the matrix after the loop; rows are 1-based here.  The row is given the
\* element of the response itself, the provider's object: .values is not
\* taken here as it is in string()
WriteRows(matrix, i, count, response) ==
    [j \in 1..Len(matrix) |->
        IF i < j /\ j <= i + count THEN response[j - i] ELSE matrix[j]]

\* the loop stopping one element early
ChunkHasNext_short(i, n, step) == i + step < n - 1

\* for i in range(0, n, self.api_request_limit): is there a chunk after i
ChunkHasNext(i, n, step) == i + step < n

\* a failed chunk skipped and the loop continued
SequenceChunk_skip_failed ==
    /\ pc = "prim_return"
    /\ op = "sequence"
    /\ Len(input_seq) > api_request_limit
    /\ a' = IF embed = None THEN a
            ELSE WriteRows(a, ix1, Len(input_data), embed.items)
    /\ written' = IF embed = None THEN written
                  ELSE written \cup (ix1 .. ix1 + Len(input_data) - 1)
    /\ IF ChunkHasNext(ix1, Len(input_seq), api_request_limit)
       THEN /\ StartChunk(input_seq, ix1 + api_request_limit)
            /\ UNCHANGED ret
       ELSE /\ ret' = NdArray(a')
            /\ pc' = "returned"
            /\ UNCHANGED <<ix1, input_data, verbose, r, wait, embed,
                           ptrace, batches>>
    /\ UNCHANGED <<config, outside, newobj>>
    /\ UNCHANGED <<op, input_seq, exc, printed, nfails>>

\* sequence(), n > api_request_limit, when the primitive returns for the
\* chunk at ix1: None ends the call with the matrix as it is; a result is
\* written to its rows and the loop goes on or the matrix is returned
SequenceChunk ==
    /\ pc = "prim_return"
    /\ op = "sequence"
    /\ Len(input_seq) > api_request_limit
    /\ IF embed = None
       THEN /\ ret' = NdArray(a)
            /\ pc' = "returned"
            /\ UNCHANGED <<a, ix1, input_data, verbose, r, wait, embed,
                           ptrace, batches, written>>
       ELSE /\ a' = WriteRows(a, ix1, Len(input_data), embed.items)
            /\ written' = written \cup (ix1 .. ix1 + Len(input_data) - 1)
            /\ IF ChunkHasNext(ix1, Len(input_seq), api_request_limit)
               THEN /\ StartChunk(input_seq, ix1 + api_request_limit)
                    /\ UNCHANGED ret
               ELSE /\ ret' = NdArray(a')
                    /\ pc' = "returned"
                    /\ UNCHANGED <<ix1, input_data, verbose, r, wait, embed,
                                   ptrace, batches>>
    /\ UNCHANGED <<config, outside, newobj>>
    /\ UNCHANGED <<op, input_seq, exc, printed, nfails>>

\* the caller takes the result; the locals of the call are gone and the
\* client is ready for the next call
Reset ==
    /\ pc \in {"returned", "raised"}
    /\ pc' = "idle"
    /\ op' = "none"
    /\ input_seq' = <<>>
    /\ a' = <<>>
    /\ ix1' = 0
    /\ input_data' = <<>>
    /\ verbose' = FALSE
    /\ r' = 0
    /\ wait' = 0
    /\ embed' = None
    /\ ret' = None
    /\ exc' = "none"
    /\ ptrace' = <<>>
    /\ batches' = <<>>
    /\ written' = {}
    /\ printed' = <<>>
    /\ nfails' = 0
    /\ newobj' = NoObject
    /\ UNCHANGED <<config, outside>>

Next ==
    \/ \E data \in Batches, verb \in BOOLEAN : CallBackoff(data, "list", verb)
    \/ \E s \in Strings, verb \in BOOLEAN : CallBackoff(s, "str", verb)
    \/ \E s \in Strings : CallString(s)
    \/ \E mv \in ModelVersions : Construct(mv)
    \/ \E seq \in Inputs : CallSequence(seq)
    \/ StringReturn
    \/ SequenceSmallReturn
    \/ SequenceChunk
    \/ ProviderSucceeds
    \/ \E cls \in ProviderErrors : ProviderFails(cls)
    \/ Sleep
    \/ BackoffReturn
    \/ Reset

Spec == Init /\ [][Next]_vars

\* the steps of a call in progress: the provider answers or raises, the
\* sleep ends, the methods go on to their next statement
Progress ==
    \/ StringReturn
    \/ SequenceSmallReturn
    \/ SequenceChunk
    \/ ProviderSucceeds
    \/ \E cls \in ProviderErrors : ProviderFails(cls)
    \/ Sleep
    \/ BackoffReturn

\* a call once started is run on: the interpreter runs the one thread,
\* every provider call returns or raises and every time.sleep ends.
\* Whether and when a caller starts a call or takes its result is free.
\* The client has the delay, the factor and the flag of lines 20-22.
InitFair ==
    /\ api_request_limit \in 1..MaxRequestLimit
    /\ api_retry_limit \in 1..MaxRetryLimit
    /\ api_retry_delay = 5
    /\ api_backoff_factor = 2
    /\ size = Len(get_embeddings(<<"dummy data">>)[1].values)
    /\ self_verbose = FALSE
    /\ ClientIdle
    /\ OutsideIdle

FairSpec == InitFair /\ [][Next]_vars /\ WF_vars(Progress)

----------------------------------------------------------------------------
(* Embedding._sequence, the retry helper that sequence() does not use *)

\* what the bare except clause of line 87 catches: every exception
HelperErrors == ProviderErrors \cup {"KeyboardInterrupt"}

\* _sequence(input_seq): embed = None, then the loop over
\* range(self.api_retry_limit)
Call_sequence(seq) ==
    /\ pc = "idle"
    /\ op' = "_sequence"
    /\ input_seq' = seq
    /\ input_data' = seq
    /\ embed' = None
    /\ r' = 0
    /\ wait' = 0
    /\ verbose' = FALSE
    /\ ptrace' = <<>>
    /\ pc' = IF 0 < api_retry_limit THEN "attempt" ELSE "prim_return"
    /\ UNCHANGED <<config, outside, newobj>>
    /\ UNCHANGED <<a, ix1, ret, exc, batches, written, printed, nfails>>

\* the loop left at the first response, as the primitive does
HelperSucceeds_returns_at_once ==
    /\ pc = "attempt"
    /\ op = "_sequence"
    /\ embed' = PyList(get_embeddings(input_seq))
    /\ ptrace' = ptrace \o <<[ev |-> "call", r |-> r, w |-> 0,
                             arg |-> input_seq],
                            [ev |-> "ok", r |-> r, w |-> 0]>>
    /\ r' = r
    /\ pc' = "prim_return"
    /\ UNCHANGED <<config, outside, newobj>>
    /\ UNCHANGED <<op, input_seq, a, ix1, input_data, verbose,
                   wait, ret, exc, batches, written, printed, nfails>>

\* embed = self.model.get_embeddings(input_seq): the response is kept in
\* the local and the loop goes on
HelperSucceeds ==
    /\ pc = "attempt"
    /\ op = "_sequence"
    /\ embed' = PyList(get_embeddings(input_seq))
    /\ ptrace' = ptrace \o <<[ev |-> "call", r |-> r, w |-> 0,
                             arg |-> input_seq],
                            [ev |-> "ok", r |-> r, w |-> 0]>>
    /\ IF RangeHasNext(r, api_retry_limit)
       THEN /\ r' = r + 1
            /\ pc' = "attempt"
       ELSE /\ r' = r
            /\ pc' = "prim_return"
    /\ UNCHANGED <<config, outside, newobj>>
    /\ UNCHANGED <<op, input_seq, a, ix1, input_data, verbose,
                   wait, ret, exc, batches, written, printed, nfails>>

\* the provider raises; except: pass, and the loop goes on with the local
\* as it was
HelperFails(cls) ==
    /\ pc = "attempt"
    /\ op = "_sequence"
    /\ ptrace' = ptrace \o <<[ev |-> "call", r |-> r, w |-> 0,
                             arg |-> input_seq],
                            [ev |-> "fail", r |-> r, w |-> 0]>>
    /\ nfails' = nfails + 1
    /\ IF RangeHasNext(r, api_retry_limit)
       THEN /\ r' = r + 1
            /\ pc' = "attempt"
       ELSE /\ r' = r
            /\ pc' = "prim_return"
    /\ UNCHANGED <<config, outside, newobj>>
    /\ UNCHANGED <<op, input_seq, a, ix1, input_data, verbose, wait,
                   embed, ret, exc, batches, written, printed>>

\* embed = [_e.values for _e in embed]; return embed
\* None is not iterable
HelperReturn ==
    /\ pc = "prim_return"
    /\ op = "_sequence"
    /\ IF embed = None
       THEN /\ pc' = "raised"
            /\ exc' = "TypeError"
            /\ UNCHANGED ret
       ELSE /\ pc' = "returned"
            /\ ret' = PyList([k \in 1..Len(embed.items) |->
                                 FloatList(embed.items[k].values)])
            /\ UNCHANGED exc
    /\ UNCHANGED <<config, outside, newobj>>
    /\ UNCHANGED <<op, input_seq, a, ix1, input_data, verbose, r,
                   wait, embed, ptrace, batches, written, printed, nfails>>

NextHelper ==
    \/ \E seq \in Batches : Call_sequence(seq)
    \/ HelperSucceeds
    \/ \E cls \in HelperErrors : HelperFails(cls)
    \/ HelperReturn
    \/ Reset

SpecHelper == Init /\ [][NextHelper]_vars

----------------------------------------------------------------------------
(* bq.base: to_df and job_timer *)

\* the variables of the Embedding client
embedding == <<config, newobj, op, pc, input_seq, a, ix1, input_data,
               verbose, r, wait, embed, ret, exc, ptrace, batches, written,
               printed, nfails>>

\* a client with one fixed configuration, at rest
ClientAtRest ==
    /\ api_request_limit = 1
    /\ api_retry_limit = 1
    /\ api_retry_delay = 1
    /\ api_backoff_factor = 2
    /\ size = Dim
    /\ self_verbose = FALSE
    /\ ClientIdle

MaxTimeoutMinutes == 1
MaxClock == 62
SecondsPerMinute == 60

\* the timeout arguments: None, or a number of minutes
Timeouts ==
    {NoTimeout} \cup {[none |-> FALSE, minutes |-> m] : m \in 1..MaxTimeoutMinutes}

\* timeout = int(timeout) * 60
TimeoutSeconds(tm) == tm.minutes * SecondsPerMinute

\* to_df submits the query and calls job_timer, which takes t0 and
\* converts the timeout
ToDfSubmit(tm) ==
    /\ bq_pc = "idle"
    /\ job' = "running"
    /\ timeout' = tm
    /\ t0' = clock
    /\ bq_pc' = "timer"
    /\ UNCHANGED <<clock, done_at, cancel_calls>>
    /\ UNCHANGED <<embedding, credvars, genvars, nlpvars>>

\* the body of the with block of job_timer, which runs once: the generator
\* that polls running_job.done() is handed to tqdm and never iterated.
\* dt is compared with the timeout; the job is cancelled and a second
\* slept, or the progress bar is updated; then job_timer returns
JobTimerBody ==
    /\ bq_pc = "timer"
    /\ LET dt == clock - t0
       IN IF ~timeout.none /\ dt > TimeoutSeconds(timeout)
          THEN /\ cancel_calls' = cancel_calls + 1
               /\ job' = IF job = "running" THEN "cancelled" ELSE job
               /\ clock' = clock + 1
          ELSE UNCHANGED <<cancel_calls, job, clock>>
    /\ bq_pc' = "result"
    /\ UNCHANGED <<t0, timeout, done_at>>
    /\ UNCHANGED <<embedding, credvars, genvars, nlpvars>>

\* a second passes
Tick ==
    /\ bq_pc \in {"timer", "result"}
    /\ clock < MaxClock
    /\ clock' = clock + 1
    /\ UNCHANGED <<bq_pc, t0, timeout, job, done_at, cancel_calls>>
    /\ UNCHANGED <<embedding, credvars, genvars, nlpvars>>

\* the service finishes the job
JobFinishes ==
    /\ job = "running"
    /\ job' = "done"
    /\ done_at' = clock
    /\ UNCHANGED <<bq_pc, clock, t0, timeout, cancel_calls>>
    /\ UNCHANGED <<embedding, credvars, genvars, nlpvars>>

\* to_df: query_job.result() returns (or raises) once the job has ended
ToDfResult ==
    /\ bq_pc = "result"
    /\ job \in {"done", "cancelled"}
    /\ bq_pc' = "returned"
    /\ UNCHANGED <<clock, t0, timeout, job, done_at, cancel_calls>>
    /\ UNCHANGED <<embedding, credvars, genvars, nlpvars>>

\* the caller takes the result of to_df
BqReset ==
    /\ bq_pc = "returned"
    /\ bq_pc' = "idle"
    /\ clock' = 0
    /\ t0' = 0
    /\ timeout' = NoTimeout
    /\ job' = "none"
    /\ done_at' = 0
    /\ cancel_calls' = 0
    /\ UNCHANGED <<embedding, credvars, genvars, nlpvars>>

InitTimer == ClientAtRest /\ OutsideIdle

NextTimer ==
    \/ \E tm \in Timeouts : ToDfSubmit(tm)
    \/ JobTimerBody
    \/ Tick
    \/ JobFinishes
    \/ ToDfResult
    \/ BqReset

SpecTimer == InitTimer /\ [][NextTimer]_vars

----------------------------------------------------------------------------
(* credentials.create_credentials *)

CredFiles == {"None", "sa1.json", "sa2.json"}
ProjectIds == {"None", "p1", "p2"}
ScopeArgs == {<<>>, <<"s1">>, <<"s1", "s2">>}

\* what google.auth.default finds: nothing (DefaultCredentialsError), or
\* credentials of the environment with or without a project
Environments == {"None", "adc", "adc+project"}

CredInputs ==
    [cred_file : CredFiles, project_id : ProjectIds, scopes : ScopeArgs,
     verbose : BOOLEAN, env : Environments]

\* scopes_list, lines 46-54
ScopesList(scopes) ==
    <<"cloud-platform", "drive", "spreadsheets">> \o scopes

\* google.auth.default(scopes=scopes_list), when it does not raise
AuthDefault(env, scopes_list) ==
    [credentials |-> "environment",
     project_id |-> IF env = "adc+project" THEN "envproject" ELSE "None",
     scopes |-> scopes_list]

\* service_account.Credentials.from_service_account_file(cred_file)
\* .with_scopes(scopes_list), and the pair returned on line 81
FromFile(cred_file, project_id, scopes_list) ==
    [credentials |-> cred_file, project_id |-> project_id,
     scopes |-> scopes_list]

\* create_credentials: the default credentials are tried first and
\* returned when they exist; the file is read only after a
\* DefaultCredentialsError, under the assertion of line 66
create_credentials(in) ==
    LET scopes_list == ScopesList(in.scopes)
    IN IF in.env # "None"
       THEN [outcome |-> "returned",
             pair |-> AuthDefault(in.env, scopes_list)]
       ELSE IF in.cred_file # "None" /\ in.project_id # "None"
       THEN [outcome |-> "returned",
             pair |-> FromFile(in.cred_file, in.project_id, scopes_list)]
       ELSE [outcome |-> "AssertionError", pair |-> NoPair]

CallCreateCredentials ==
    /\ cred_pc = "idle"
    /\ cred_pc' = create_credentials(cred_in).outcome
    /\ cred_out' = create_credentials(cred_in).pair
    /\ UNCHANGED cred_in
    /\ UNCHANGED <<embedding, bqvars, genvars, nlpvars>>

InitCred ==
    /\ ClientAtRest
    /\ BqIdle
    /\ GenIdle
    /\ NlpIdle
    /\ cred_pc = "idle"
    /\ cred_in \in CredInputs
    /\ cred_out = NoPair

NextCred == CallCreateCredentials

SpecCred == InitCred /\ [][NextCred]_vars

----------------------------------------------------------------------------
(* gen.number_2_word; a str is the sequence of its characters *)

\* the largest number of the documented domain
MaxNum == 99

\* how far beyond the documented domain the argument is drawn
Beyond == 3

Nums == 0..(MaxNum + Beyond)

num2words ==
    1 :> <<"O", "n", "e">> @@
    2 :> <<"T", "w", "o">> @@
    3 :> <<"T", "h", "r", "e", "e">> @@
    4 :> <<"F", "o", "u", "r">> @@
    5 :> <<"F", "i", "v", "e">> @@
    6 :> <<"S", "i", "x">> @@
    7 :> <<"S", "e", "v", "e", "n">> @@
    8 :> <<"E", "i", "g", "h", "t">> @@
    9 :> <<"N", "i", "n", "e">> @@
    10 :> <<"T", "e", "n">> @@
    11 :> <<"E", "l", "e", "v", "e", "n">> @@
    12 :> <<"T", "w", "e", "l", "v", "e">> @@
    13 :> <<"T", "h", "i", "r", "t", "e", "e", "n">> @@
    14 :> <<"F", "o", "u", "r", "t", "e", "e", "n">> @@
    15 :> <<"F", "i", "f", "t", "e", "e", "n">> @@
    16 :> <<"S", "i", "x", "t", "e", "e", "n">> @@
    17 :> <<"S", "e", "v", "e", "n", "t", "e", "e", "n">> @@
    18 :> <<"E", "i", "g", "h", "t", "e", "e", "n">> @@
    19 :> <<"N", "i", "n", "e", "t", "e", "e", "n">> @@
    20 :> <<"T", "w", "e", "n", "t", "y">> @@
    30 :> <<"T", "h", "i", "r", "t", "y">> @@
    40 :> <<"F", "o", "r", "t", "y">> @@
    50 :> <<"F", "i", "f", "t", "y">> @@
    60 :> <<"S", "i", "x", "t", "y">> @@
    70 :> <<"S", "e", "v", "e", "n", "t", "y">> @@
    80 :> <<"E", "i", "g", "h", "t", "y">> @@
    90 :> <<"N", "i", "n", "e", "t", "y">> @@
    0 :> <<"Z", "e", "r", "o">>

UpperCase ==
    <<"A", "B", "C", "D", "E", "F", "G", "H", "I", "J", "K", "L", "M",
      "N", "O", "P", "Q", "R", "S", "T", "U", "V", "W", "X", "Y", "Z">>

LowerCase ==
    <<"a", "b", "c", "d", "e", "f", "g", "h", "i", "j", "k", "l", "m",
      "n", "o", "p", "q", "r", "s", "t", "u", "v", "w", "x", "y", "z">>

LowerChar_identity(c) ==
    c

\* the lower-case form of one character
LowerChar(c) ==
    IF \E i \in DOMAIN UpperCase : UpperCase[i] = c
    THEN LowerCase[CHOOSE i \in DOMAIN UpperCase : UpperCase[i] = c]
    ELSE c

\* str.lower()
PyLower(w) ==
    [i \in DOMAIN w |-> LowerChar(w[i])]

\* the two nested try blocks: a KeyError of the first lookup leads to the
\* tens and units lookups, a KeyError of either of those to None
number_2_word(n) ==
    IF n \in DOMAIN num2words
    THEN [kind |-> "str", chars |-> num2words[n]]
    ELSE IF (n - (n % 10)) \in DOMAIN num2words /\ (n % 10) \in DOMAIN num2words
    THEN [kind |-> "str",
          chars |-> num2words[n - (n % 10)] \o PyLower(num2words[n % 10])]
    ELSE NoneWord

CallNumber2Word ==
    /\ gen_pc = "idle"
    /\ gen_pc' = "returned"
    /\ word' = number_2_word(num)
    /\ UNCHANGED num
    /\ UNCHANGED <<embedding, bqvars, credvars, nlpvars>>

InitGen ==
    /\ ClientAtRest
    /\ BqIdle
    /\ CredIdle
    /\ NlpIdle
    /\ gen_pc = "idle"
    /\ num \in Nums
    /\ word = NoneWord

NextGen == CallNumber2Word

SpecGen == InitGen /\ [][NextGen]_vars

----------------------------------------------------------------------------
(* nlp.NLP.sentiment_df.  DataFrame.apply(axis=1) calls the function once *)
(* for each row, in row order.                                             *)

MaxRows == 3
MaxRequestCount == 3

\* a cell of the text column: None or NaN, or a str
NullText == [kind |-> "null", s |-> ""]
Str(t) == [kind |-> "str", s |-> t]

Texts == {NullText, Str(""), Str("good")}

\* the columns of one to MaxRows rows
Frames == UNION {[1..k -> Texts] : k \in 1..MaxRows}

\* every falsy cell taken for a missing one
PdIsNull_falsy(text) == text.kind = "null" \/ text.s = ""

\* pd.isnull(text)
PdIsNull(text) == text.kind = "null"

\* pd.NA, pd.NA
NAPair == [na |-> TRUE, score |-> 0, magnitude |-> 0]

\* NLP._request(text) with the encoding_type sentiment() adds
Request(text) ==
    [document |-> [type_ |-> "PLAIN_TEXT", content |-> text.s],
     encoding_type |-> "UTF8"]

\* response.document_sentiment of the service, in tenths
DocumentSentiment(request) ==
    IF request.document.content = "good"
    THEN [na |-> FALSE, score |-> 8, magnitude |-> 8]
    ELSE [na |-> FALSE, score |-> 0, magnitude |-> 0]

\* sentiment_df(_df, column_name, prefix): apply() starts at the first row
CallSentimentDf(frame) ==
    /\ nlp_pc = "idle"
    /\ api_request_count < MaxRequestCount
    /\ nlp_pc' = "apply"
    /\ df' = frame
    /\ row' = 0
    /\ out' = <<>>
    /\ requests' = <<>>
    /\ count0' = api_request_count
    /\ UNCHANGED api_request_count
    /\ UNCHANGED <<embedding, bqvars, credvars, genvars>>

\* _sentiment(text) for the next row: a null text gives the NA pair;
\* otherwise the counter is incremented and the quota delay slept
SentimentOfRow ==
    /\ nlp_pc = "apply"
    /\ row < Len(df)
    /\ IF PdIsNull(df[row + 1])
       THEN /\ out' = Append(out, NAPair)
            /\ row' = row + 1
            /\ UNCHANGED <<nlp_pc, api_request_count>>
       ELSE /\ api_request_count' = api_request_count + 1
            /\ nlp_pc' = "request"
            /\ UNCHANGED <<out, row>>
    /\ UNCHANGED <<df, requests, count0>>
    /\ UNCHANGED <<embedding, bqvars, credvars, genvars>>

\* self.sentiment(text): the request is built and sent, the service
\* answers and the pair of score and magnitude is the row's result
SentimentAnswers ==
    /\ nlp_pc = "request"
    /\ requests' = Append(requests, [row |-> row + 1,
                                      request |-> Request(df[row + 1])])
    /\ out' = Append(out, DocumentSentiment(Request(df[row + 1])))
    /\ row' = row + 1
    /\ nlp_pc' = "apply"
    /\ UNCHANGED <<api_request_count, df, count0>>
    /\ UNCHANGED <<embedding, bqvars, credvars, genvars>>

\* self.sentiment(text): the request is sent and the service raises;
\* nothing catches the error and it leaves sentiment_df
SentimentRaises ==
    /\ nlp_pc = "request"
    /\ requests' = Append(requests, [row |-> row + 1,
                                      request |-> Request(df[row + 1])])
    /\ nlp_pc' = "raised"
    /\ UNCHANGED <<api_request_count, df, row, out, count0>>
    /\ UNCHANGED <<embedding, bqvars, credvars, genvars>>

\* apply() has passed the last row: the two columns are appended to the
\* frame and the frame is returned
SentimentDfReturn ==
    /\ nlp_pc = "apply"
    /\ row = Len(df)
    /\ nlp_pc' = "returned"
    /\ UNCHANGED <<api_request_count, df, row, out, requests, count0>>
    /\ UNCHANGED <<embedding, bqvars, credvars, genvars>>

\* the caller takes the frame or the error; the counter stays
NlpReset ==
    /\ nlp_pc \in {"returned", "raised"}
    /\ nlp_pc' = "idle"
    /\ df' = <<>>
    /\ row' = 0
    /\ out' = <<>>
    /\ requests' = <<>>
    /\ count0' = 0
    /\ UNCHANGED api_request_count
    /\ UNCHANGED <<embedding, bqvars, credvars, genvars>>

InitNlp ==
    /\ ClientAtRest
    /\ OutsideIdle

NextNlp ==
    \/ \E frame \in Frames : CallSentimentDf(frame)
    \/ SentimentOfRow
    \/ SentimentAnswers
    \/ SentimentRaises
    \/ SentimentDfReturn
    \/ NlpReset

SpecNlp == InitNlp /\ [][NextNlp]_vars

----------------------------------------------------------------------------
(* Properties *)

\* the number of events of one kind in a trace of the primitive
NEv(tr, e) == Cardinality({k \in 1..Len(tr) : tr[k].ev = e})

\* the primitive has returned (and its caller may have ended too)
PrimitiveEnded ==
    /\ pc \in {"prim_return", "returned", "raised"}
    /\ op # "none"
    /\ exc # "AttributeError"

\* C1: for every batch and failure pattern the provider is called at most
\* api_retry_limit times by one call of the primitive, and None is returned
\* only after exactly api_retry_limit provider calls that all failed.
C1_AtMostRetryLimitCalls ==
    /\ op # "none" => NEv(ptrace, "call") <= api_retry_limit
    /\ (PrimitiveEnded /\ embed = None) =>
          /\ NEv(ptrace, "call") = api_retry_limit
          /\ NEv(ptrace, "fail") = api_retry_limit
          /\ NEv(ptrace, "ok") = 0

C1_Witness ==
    /\ pc = "prim_return"
    /\ embed = None
    /\ api_retry_limit >= 2
    /\ NEv(ptrace, "call") = api_retry_limit

\* C2: once a provider call succeeds the primitive returns that attempt's
\* result at once: a success is the last event of the primitive's call, no
\* provider call and no wait follows it.
C2_SuccessReturnsImmediately ==
    \A k \in 1..Len(ptrace) :
        ptrace[k].ev = "ok" =>
            /\ k = Len(ptrace)
            /\ pc \in {"prim_return", "returned"}
            /\ embed = PyList(get_embeddings(input_data))

C2_Witness ==
    /\ pc = "prim_return"
    /\ Len(ptrace) > 0
    /\ ptrace[Len(ptrace)].ev = "ok"
    /\ NEv(ptrace, "fail") >= 1
    /\ RangeHasNext(ptrace[Len(ptrace)].r, api_retry_limit)

\* C3 (as claimed): a wait happens only between two attempts; nothing is
\* waited after the failure of the last attempt, so a batch whose attempts
\* all fail incurs exactly api_retry_limit - 1 waits.
C3_NoWaitAfterLastAttempt ==
    /\ pc = "sleep" => r < api_retry_limit - 1
    /\ (PrimitiveEnded /\ embed = None) =>
          NEv(ptrace, "sleep") = api_retry_limit - 1

\* the waits of a trace, in order
Sleeps(tr) == SelectSeq(tr, LAMBDA x : x.ev = "sleep")

\* C4: the wait after the failure of attempt n (from 0) is
\* api_retry_delay * api_backoff_factor^n: the first wait is the delay,
\* each later one is the factor times the one before, and the wait number
\* n comes right after the failure of the provider call number n.
C4_WaitIsExponential ==
    /\ \A k \in 1..Len(ptrace) :
          ptrace[k].ev = "sleep" =>
              /\ k > 1 /\ ptrace[k - 1].ev = "fail"
              /\ NEv(SubSeq(ptrace, 1, k), "sleep")
                    = NEv(SubSeq(ptrace, 1, k), "call")
    /\ LET sl == Sleeps(ptrace)
       IN \A n \in 1..Len(sl) :
            sl[n].w = IF n = 1 THEN api_retry_delay
                      ELSE api_backoff_factor * sl[n - 1].w

C4_Witness ==
    /\ api_backoff_factor = 3
    /\ api_retry_delay = 5
    /\ Len(Sleeps(ptrace)) >= 3
    /\ Sleeps(ptrace)[3].w = 45

\* C5: no provider failure leaves the primitive as an exception: whatever
\* the classes of the errors, the primitive ends by returning the provider's
\* result or None.  (The exception of string() comes after the primitive
\* returned None; the one of __init__ comes before any provider call.)
C5_NoProviderErrorEscapes ==
    /\ exc \notin ProviderErrors
    /\ op = "backoff" => pc # "raised"
    /\ (pc = "raised" /\ op = "string") =>
          NEv(ptrace, "fail") = api_retry_limit
    /\ (pc = "raised" /\ op = "init") => NEv(ptrace, "call") = 0
    /\ pc = "prim_return" =>
          \/ embed = None
          \/ embed = PyList(get_embeddings(input_data))

C5_Witness ==
    /\ op = "backoff"
    /\ pc = "returned"
    /\ \A cls \in ProviderErrors :
          \E k \in 1..Len(printed) : printed[k].error = cls

\* sequence() is running its chunked branch (n > api_request_limit)
BigSequence == op = "sequence" /\ Len(input_seq) > api_request_limit

\* C6: for an input longer than api_request_limit the batches given to the
\* primitive are consecutive slices of the input, in input order, of size
\* api_request_limit (only the last may be shorter); the first starts at
\* index 0, each starts where the one before ended, and when every chunk
\* succeeded they cover the input up to its last index.
C6_ChunksPartitionInput ==
    BigSequence =>
        /\ \A k \in 1..Len(batches) :
              LET b == batches[k]
              IN /\ b.ix1 = IF k = 1 THEN 0
                            ELSE batches[k - 1].ix1 + Len(batches[k - 1].items)
                 /\ Len(b.items) >= 1
                 /\ Len(b.items) <= api_request_limit
                 /\ Len(b.items) < api_request_limit =>
                       b.ix1 + Len(b.items) = Len(input_seq)
                 /\ \A m \in 1..Len(b.items) :
                       /\ b.ix1 + m <= Len(input_seq)
                       /\ b.items[m] = input_seq[b.ix1 + m]
        /\ pc \in {"attempt", "sleep", "prim_return"} =>
              /\ Len(batches) >= 1
              /\ input_data = batches[Len(batches)].items
        /\ (pc = "returned" /\ embed # None) =>
              LET last == batches[Len(batches)]
              IN last.ix1 + Len(last.items) = Len(input_seq)

C6_Witness ==
    /\ BigSequence
    /\ pc = "returned"
    /\ embed # None
    /\ Len(batches) >= 2
    /\ api_request_limit >= 2
    /\ Len(batches[Len(batches)].items) < api_request_limit

\* the chunk sequence() was at when the primitive last returned
LastChunkStart == batches[Len(batches)].ix1

\* C7: fail-fast: when the chunk starting at index s is the first whose
\* retries are exhausted, sequence() returns the matrix without raising,
\* every row before s holds the provider's result for its input, every row
\* from s on is all-zero, and no later chunk is given to the primitive (so
\* no provider call is made for it).
C7_FailFast ==
    (BigSequence /\ PrimitiveEnded /\ embed = None) =>
        /\ pc # "raised"
        /\ pc = "returned" => ret = NdArray(a)
        /\ Len(a) = Len(input_seq)
        /\ \A j \in 1..Len(a) :
              a[j] = IF j <= LastChunkStart
                     THEN get_embeddings(<<input_seq[j]>>)[1]
                     ELSE ZeroRow(size)
        /\ \A k \in 1..Len(batches) : batches[k].ix1 <= LastChunkStart
        /\ LastChunkStart = (Len(batches) - 1) * api_request_limit

C7_Witness ==
    /\ BigSequence
    /\ pc = "returned"
    /\ embed = None
    /\ LastChunkStart >= api_request_limit
    /\ LastChunkStart + api_request_limit < Len(input_seq)

\* C8 (as claimed): sequence() never raises and always returns a dense
\* matrix of exactly N rows of width D, for every N and failure pattern.
C8_AlwaysDenseMatrix ==
    op = "sequence" =>
        /\ pc # "raised"
        /\ pc = "returned" =>
              /\ ret.kind = "ndarray"
              /\ Len(ret.items) = Len(input_seq)
              /\ \A j \in 1..Len(ret.items) : Len(ret.items[j].values) = size

\* string(s) with a provider that does not fail
embed_one(s) == get_embeddings(<<s>>)[1].values

\* C9 (as claimed): with a provider that never fails, sequence(texts)
\* returns a matrix of shape (N, D) whose row i is the vector string()
\* returns for texts[i], for N below, equal to or above api_request_limit.
C9_RowsEqualEmbedOne ==
    (op = "sequence" /\ pc = "returned" /\ nfails = 0) =>
        /\ ret.kind = "ndarray"
        /\ Len(ret.items) = Len(input_seq)
        /\ \A j \in 1..Len(ret.items) :
              /\ ret.items[j].type = "float64"
              /\ Len(ret.items[j].values) = size
              /\ ret.items[j].values = embed_one(input_seq[j])

\* C10: row order is preserved under every failure pattern: at every point
\* of the call and in the returned matrix each row that has been written
\* holds what the provider returned for the input string of that index,
\* at position (index - chunk start) of that chunk's response; rows not
\* written are still zero.
C10_RowOrderPreserved ==
    BigSequence =>
        /\ \A j \in 0..(Len(input_seq) - 1) :
              IF j \in written
              THEN \E k \in 1..Len(batches) :
                     LET b == batches[k]
                     IN /\ b.ix1 <= j
                        /\ j < b.ix1 + Len(b.items)
                        /\ a[j + 1] = get_embeddings(b.items)[j - b.ix1 + 1]
                        /\ a[j + 1].values = Vec(input_seq[j + 1])
              ELSE a[j + 1] = ZeroRow(size)
        /\ pc = "returned" => ret = NdArray(a)

C10_Witness ==
    /\ BigSequence
    /\ pc = "returned"
    /\ nfails >= 1
    /\ api_request_limit >= 2
    /\ Cardinality(written) >= 4
    /\ input_seq[1] # input_seq[2]
    /\ input_seq[3] # input_seq[4]

\* __init__ has ended, by return or by exception
ConstructionEnded == op = "init" /\ pc \in {"returned", "raised"}

\* C11 (as claimed): constructing a client against a provider that
\* succeeds completes, makes exactly one provider call, with the batch
\* ["dummy data"], and sets the size to the length of the returned vector.
C11_ConstructionProbesOnce ==
    (ConstructionEnded /\ nfails = 0) =>
        /\ pc = "returned"
        /\ NEv(ptrace, "call") = 1
        /\ input_data = <<"dummy data">>
        /\ newobj.attrs = AllAttrs
        /\ newobj.size = Len(Vec("dummy data"))

C13_StringFailsIffExhausted ==
    (op = "string" /\ pc # "idle") =>
        /\ Len(input_data) = 1
        /\ input_data = input_seq
        /\ pc = "returned" =>
              /\ ret = FloatList(Vec(input_seq[1]))
              /\ NEv(ptrace, "ok") = 1
        /\ pc \in {"returned", "raised"} =>
              (pc = "raised" <=> NEv(ptrace, "fail") = api_retry_limit)
        /\ NEv(ptrace, "fail") = api_retry_limit =>
              pc \in {"sleep", "prim_return", "raised"}

C13_Witness ==
    /\ op = "string"
    /\ pc = "raised"
    /\ exc = "TypeError"
    /\ api_retry_limit >= 2

\* C14: no step of string(), sequence() or the primitive, whatever the
\* provider does, changes the size or the configuration of the client, and
\* between two top-level calls nothing of the call before is left.
C14_ConfigNeverChanges ==
    /\ [][config' = config]_vars
    /\ [](pc = "idle" =>
            /\ r = 0 /\ wait = 0 /\ nfails = 0
            /\ ptrace = <<>> /\ batches = <<>> /\ a = <<>>)

C14_Witness ==
    /\ op = "sequence"
    /\ pc = "returned"
    /\ nfails >= 2
    /\ Len(batches) >= 2

\* C18: the attempt counter belongs to one call of the primitive: at each
\* attempt it equals the provider calls already made for this batch, so the
\* first wait of every chunk is api_retry_delay and a chunk whose attempts
\* all fail had api_retry_limit of them, whatever earlier chunks consumed.
C18_CounterPerBatch ==
    op # "none" =>
        /\ pc = "attempt" => r = NEv(ptrace, "call")
        /\ Len(Sleeps(ptrace)) >= 1 => Sleeps(ptrace)[1].w = api_retry_delay
        /\ (PrimitiveEnded /\ embed = None) =>
              NEv(ptrace, "fail") = api_retry_limit

C18_Witness ==
    /\ BigSequence
    /\ pc = "prim_return"
    /\ embed = None
    /\ Len(batches) >= 2
    /\ nfails > api_retry_limit
    /\ api_retry_limit >= 2

\* C19: the chunks of sequence() are processed one after another: while
\* the primitive works on a chunk, that chunk is the last one started, its
\* start is beyond every earlier chunk's, and the rows of all earlier chunks
\* (and no others) are written, so each of them had returned a result.
C19_ChunksSequential ==
    BigSequence =>
        /\ \A k \in 2..Len(batches) : batches[k - 1].ix1 < batches[k].ix1
        /\ pc \in {"attempt", "sleep", "prim_return"} =>
              /\ input_data = batches[Len(batches)].items
              /\ ix1 = batches[Len(batches)].ix1
              /\ written = 0..(ix1 - 1)

C19_Witness ==
    /\ BigSequence
    /\ pc = "attempt"
    /\ Len(batches) >= 3
    /\ nfails >= 1

\* C20 (as claimed): every provider call made by sequence() or string()
\* carries a non-empty batch of at most api_request_limit strings, for
\* every input length, 0 included.
C20_BatchNonEmpty ==
    (op \in {"string", "sequence"} /\ NEv(ptrace, "call") >= 1) =>
        /\ Len(input_data) >= 1
        /\ Len(input_data) <= api_request_limit

\* C15 (as claimed): job_timer cancels a job that exceeds its timeout
\* and no other: once job_timer has returned (it is the only caller of
\* cancel), a job still running more than timeout minutes after the call
\* has been cancelled; a job that finished within the timeout has not.
C15_TimeoutCancels ==
    (bq_pc \in {"result", "returned"} /\ ~timeout.none) =>
        /\ (job = "running" /\ clock - t0 > TimeoutSeconds(timeout)) =>
              cancel_calls >= 1
        /\ (job = "done" /\ done_at - t0 <= TimeoutSeconds(timeout)) =>
              cancel_calls = 0

\* C16 (as claimed): the service-account file is used when cred_file is
\* passed, the default credentials of the environment only when it is not:
\* a call with cred_file and project_id returns the credentials built from
\* that file and the project_id of the argument.
C16_FileTakesPrecedence ==
    cred_pc # "idle" =>
        /\ (cred_in.cred_file # "None" /\ cred_in.project_id # "None") =>
              /\ cred_pc = "returned"
              /\ cred_out.credentials = cred_in.cred_file
              /\ cred_out.project_id = cred_in.project_id
        /\ cred_out.credentials = "environment" => cred_in.cred_file = "None"

\* the upper-case and the lower-case letters
IsUpper(c) == \E i \in DOMAIN UpperCase : UpperCase[i] = c
IsLower(c) == \E i \in DOMAIN LowerCase : LowerCase[i] = c

\* C17: for every n in 0..99 number_2_word returns a word and never None:
\* the table entry when n is a key, otherwise the tens word followed by the
\* units word in lower case, so that only the first letter of the result is
\* a capital (21 gives Twentyone).
C17_EveryNumberHasWord ==
    (gen_pc = "returned" /\ num \in 0..MaxNum) =>
        /\ word.kind = "str"
        /\ num \in DOMAIN num2words => word.chars = num2words[num]
        /\ num \notin DOMAIN num2words =>
              LET tens == num2words[num - (num % 10)]
                  units == num2words[num % 10]
              IN /\ Len(word.chars) = Len(tens) + Len(units)
                 /\ SubSeq(word.chars, 1, Len(tens)) = tens
                 /\ \A i \in 1..Len(units) :
                       /\ IsLower(word.chars[Len(tens) + i])
                       /\ i > 1 => word.chars[Len(tens) + i] = units[i]
                 /\ \E k \in DOMAIN UpperCase :
                       /\ units[1] = UpperCase[k]
                       /\ word.chars[Len(tens) + 1] = LowerCase[k]
        /\ num = 21 =>
              word.chars = <<"T", "w", "e", "n", "t", "y", "o", "n", "e">>

C17_Witness ==
    /\ gen_pc = "returned"
    /\ num = 21
    /\ word = [kind |-> "str",
               chars |-> <<"T", "w", "e", "n", "t", "y", "o", "n", "e">>]

\* the provider calls of a trace, in order
Calls(tr) == SelectSeq(tr, LAMBDA x : x.ev = "call")

\* C21: every attempt of one call of the primitive gives the provider the
\* same full batch in the same order: the argument of each provider call
\* is the batch the primitive was entered with, element by element.
C21_SameBatchEveryAttempt ==
    op # "none" =>
        \A k \in 1..Len(Calls(ptrace)) :
            LET c == Calls(ptrace)[k]
            IN /\ c.r = k - 1
               /\ c.arg = input_data
               /\ c.arg = Calls(ptrace)[1].arg
               /\ op = "string" => c.arg = input_seq
               /\ BigSequence => c.arg = batches[Len(batches)].items

C21_Witness ==
    /\ pc = "prim_return"
    /\ Len(Calls(ptrace)) >= 3
    /\ Len(input_data) >= 2
    /\ input_data[1] # input_data[2]
    /\ embed # None

\* C22: the primitive returns None if and only if all api_retry_limit
\* attempts failed; a response of the provider, the empty list included,
\* is returned as it is, and sequence() ends early on a chunk only when
\* the primitive returned None for it.
C22_NoneIffAllFailed ==
    PrimitiveEnded =>
        /\ embed = None <=> NEv(ptrace, "fail") = api_retry_limit
        /\ embed # None =>
              /\ embed.kind = "list"
              /\ embed.items = get_embeddings(input_data)
              /\ NEv(ptrace, "ok") = 1
        /\ (pc = "returned" /\ op = "backoff") => ret = embed
        /\ (pc = "returned" /\ op = "sequence" /\ ~BigSequence) => ret = embed
        /\ (pc = "returned" /\ BigSequence) =>
              (embed = None <=> written # 0..(Len(input_seq) - 1))

C22_Witness ==
    /\ op = "sequence"
    /\ pc = "returned"
    /\ input_seq = <<>>
    /\ nfails >= 1
    /\ ret = PyList(<<>>)
    /\ ret # None

\* C24 (as claimed): with the verbose flag of the client set, every failed
\* provider attempt made through string() or sequence() prints one line
\* with the caught error and the computed wait.
C24_ClientVerboseLogsFailures ==
    (self_verbose /\ op \in {"string", "sequence"}) =>
        /\ Len(printed) = nfails
        /\ \A k \in 1..Len(printed) :
              /\ printed[k].error \in ProviderErrors
              /\ printed[k].wait >= api_retry_delay

\* the events of the failed attempts from..to-1 of a call with batch data:
\* the provider call, its failure and the wait that follows
RECURSIVE FailedRounds(_, _, _)
FailedRounds(data, from, to) ==
    IF from >= to THEN <<>>
    ELSE <<[ev |-> "call", r |-> from, w |-> 0, arg |-> data],
           [ev |-> "fail", r |-> from, w |-> 0],
           [ev |-> "sleep", r |-> from,
            w |-> BackoffWait(api_retry_delay, api_backoff_factor, from)]>>
         \o FailedRounds(data, from + 1, to)

\* the trace of a call of the primitive as the batch, the configuration
\* and the outcomes of the provider calls made so far determine it
TraceOfPattern(data, fails, oks, waiting) ==
    LET rounds == FailedRounds(data, 0, fails)
    IN (IF waiting THEN SubSeq(rounds, 1, Len(rounds) - 1) ELSE rounds)
       \o (IF oks = 1
           THEN <<[ev |-> "call", r |-> fails, w |-> 0, arg |-> data],
                  [ev |-> "ok", r |-> fails, w |-> 0]>>
           ELSE <<>>)

\* C23: the verbose parameter is diagnostic only: the provider calls, the
\* waits and the result of a call of the primitive are determined by the
\* batch, the configuration and the outcomes of the provider calls, the
\* same with verbose on and off; verbose decides only what is printed.
C23_VerboseDiagnosticOnly ==
    op = "backoff" =>
        /\ ptrace = TraceOfPattern(input_data, NEv(ptrace, "fail"),
                                   NEv(ptrace, "ok"), pc = "sleep")
        /\ pc \in {"prim_return", "returned"} =>
              embed = IF NEv(ptrace, "ok") = 1
                      THEN PyList(get_embeddings(input_data))
                      ELSE None
        /\ pc = "returned" => ret = embed
        /\ Len(printed) = IF verbose THEN NEv(ptrace, "fail") ELSE 0

C23_Witness ==
    /\ op = "backoff"
    /\ verbose
    /\ pc = "returned"
    /\ NEv(ptrace, "fail") >= 2
    /\ Len(printed) >= 2
    /\ embed # None

\* the rows the provider gives for the strings of seq, one by one
RowsOf(seq) == [j \in 1..Len(seq) |-> get_embeddings(<<seq[j]>>)[1]]

\* C25: transient failures do not show in the result of sequence(): when
\* the call of the chunked branch returns after a chunk that succeeded,
\* every chunk has succeeded, all N rows are written and the matrix is a
\* function of the input alone, the same after any number of failed
\* attempts as after none.
C25_TransientFailuresInvisible ==
    (BigSequence /\ pc = "returned" /\ NEv(ptrace, "ok") = 1) =>
        /\ embed # None
        /\ Len(batches) * api_request_limit >= Len(input_seq)
        /\ written = 0..(Len(input_seq) - 1)
        /\ ret = NdArray(RowsOf(input_seq))

C25_Witness ==
    /\ BigSequence
    /\ pc = "returned"
    /\ embed # None
    /\ Len(batches) >= 2
    /\ nfails >= 2
    /\ NEv(ptrace, "fail") = 1
    /\ ret = NdArray(RowsOf(input_seq))

CeilDiv(n, d) == (n + d - 1) \div d

\* the provider calls made so far by the top-level call: every chunk
\* before the current one ended with its one successful call
ProviderCalls ==
    nfails + NEv(ptrace, "ok")
           + (IF Len(batches) >= 1 THEN Len(batches) - 1 ELSE 0)

\* C27: every call of the primitive ends, with a result or None, and every
\* call of sequence() returns, whatever the provider does, after at most
\* ceil(N / api_request_limit) * api_retry_limit provider calls for
\* N > api_request_limit and at most api_retry_limit for smaller N.
C27_CallsTerminateWithinBound ==
    /\ [](op = "sequence" =>
            ProviderCalls <= IF BigSequence
                             THEN CeilDiv(Len(input_seq), api_request_limit)
                                  * api_retry_limit
                             ELSE api_retry_limit)
    /\ [](op = "backoff" => ProviderCalls <= api_retry_limit)
    /\ (pc \in {"attempt", "sleep"}) ~> (pc = "prim_return")
    /\ (op = "sequence" /\ pc # "returned")
          ~> (op = "sequence" /\ pc = "returned")
    /\ (op = "backoff" /\ pc # "returned")
          ~> (op = "backoff" /\ pc = "returned")

C27_Witness ==
    /\ BigSequence
    /\ pc = "returned"
    /\ embed = None
    /\ api_retry_limit >= 2
    /\ Len(batches) >= 2
    /\ ProviderCalls = 2 * api_retry_limit

\* the rows 1..upto of a column whose text is present, in row order
RECURSIVE PresentRows(_, _)
PresentRows(frame, upto) ==
    IF upto = 0 THEN <<>>
    ELSE PresentRows(frame, upto - 1)
         \o (IF frame[upto].kind = "null" THEN <<>> ELSE <<upto>>)

\* C28: sentiment_df sends one request for each row whose text is present,
\* in row order, with that row's text, and adds one to api_request_count
\* for each; a row without text costs no request and no count and gets NA
\* for score and magnitude.  When the call returns every row was handled.
C28_OneRequestPerPresentRow ==
    nlp_pc # "idle" =>
        LET sent == PresentRows(df, IF nlp_pc = "raised" THEN row + 1 ELSE row)
        IN /\ Len(requests) = Len(sent)
           /\ \A k \in 1..Len(sent) :
                 /\ requests[k].row = sent[k]
                 /\ requests[k].request.document.content = df[sent[k]].s
           /\ api_request_count - count0
                 = Len(requests) + (IF nlp_pc = "request" THEN 1 ELSE 0)
           /\ Len(out) = row
           /\ \A k \in 1..row :
                 /\ df[k].kind = "null" => out[k] = NAPair
                 /\ df[k].kind # "null" =>
                       /\ ~out[k].na
                       /\ \E m \in 1..Len(requests) : requests[m].row = k
           /\ nlp_pc = "returned" => row = Len(df)

C28_Witness ==
    /\ nlp_pc = "returned"
    /\ df = <<Str("good"), NullText, Str("")>>
    /\ count0 >= 1
    /\ api_request_count = count0 + 2
    /\ Len(requests) = 2
    /\ out[2] = NAPair

\* C29: every call of _sequence calls the provider exactly
\* api_retry_limit times, also after an attempt that succeeded, and waits
\* between no two of them; it returns the values of the response kept
\* from the last attempt that succeeded and raises, where the primitive
\* returns None, when every attempt failed.
C29_HelperAlwaysRunsAllAttempts ==
    op = "_sequence" =>
        /\ NEv(ptrace, "sleep") = 0
        /\ wait = 0
        /\ \A k \in 1..Len(Calls(ptrace)) :
              /\ Calls(ptrace)[k].r = k - 1
              /\ Calls(ptrace)[k].arg = input_seq
        /\ pc \in {"prim_return", "returned", "raised"} =>
              NEv(ptrace, "call") = api_retry_limit
        /\ pc \in {"returned", "raised"} =>
              (pc = "raised" <=> NEv(ptrace, "ok") = 0)
        /\ pc = "raised" => exc = "TypeError"
        /\ pc = "returned" =>
              /\ ret.kind = "list"
              /\ Len(ret.items) = Len(input_seq)
              /\ \A k \in 1..Len(input_seq) :
                    ret.items[k] = FloatList(Vec(input_seq[k]))

C29_Witness ==
    /\ op = "_sequence"
    /\ pc = "returned"
    /\ api_retry_limit >= 3
    /\ ptrace[2].ev = "ok"
    /\ ptrace[Len(ptrace)].ev = "fail"
    /\ NEv(ptrace, "ok") >= 2
    /\ Len(input_seq) >= 2

====
